---- MODULE Spec2Model ----
(***************************************************************************)
(* A model of the note assistant backend:                                  *)
(*   - services/aiProcessor.js : filterRelevantRecordings, trimContext     *)
(*   - services/database.js    : recordings, tasks, projects, suggestions  *)
(*   - server.js               : the routes that call them                 *)
(* Strings are tuples of one-character strings, so that substring tests,   *)
(* lowercasing, splitting and the project regex are computed, not assumed. *)
(***************************************************************************)
EXTENDS Integers, Sequences, FiniteSets, TLC

VARIABLES
    \* ---- aiProcessor.js: one question being answered ----
    question,           \* the question string
    notes,              \* the caller's array of recordings (sort() may reorder it)
    relevantRecordings, \* result of filterRelevantRecordings
    context,            \* trimContext's context, as the sequence of rendered lines
    usedRecordings,     \* trimContext's usedRecordings counter
    pcAi,               \* position in generateResponse
    prevRelevant,       \* ranking obtained for the question before a term was added
    prevQuestion,       \* <<q>> once a term was added to the question q, else <<>>
    prevContext,        \* context obtained by the call before this one
    dateNow,            \* Date.now()
    prevNow,            \* Date.now() at the call before this one
    \* ---- database.js: the tables ----
    projects,           \* id -> [name, is_active]
    recordings,         \* id -> [text, project_id, timestamp]
    tasks,              \* id -> [recording_id, status, completed_at, completed_by_recording_id]
    suggestions,        \* id -> [task_id, recording_id, status]
    nextId,             \* the SERIAL sequences, per table
    clock,              \* NOW()
    ret,                \* the last operation and what it returned
    \* ---- concurrent completion attempts (one transaction each) ----
    attempts,           \* attempt -> [kind, task, rec, pc, rows]
    rowLock,            \* task id -> the attempt holding its row lock, or NoOne
    \* ---- detectProjectFromText: one text being classified ----
    noteText,           \* the text
    detection,          \* <<>> for null, else <<[project, cleanedText]>>
    redetection,        \* the same for the cleaned text classified again
    pcClassify,         \* position of the classification
    \* ---- findPotentialTaskCompletions / detectTaskCompletion ----
    newText,            \* recordingText: the text of the new recording
    pendingTasks,       \* getPendingTasks(): sequence of [id, task_description]
    potentialMatches,   \* what findPotentialTaskCompletions returned
    taskCompletion,     \* what detectTaskCompletion returned
    pcMatcher,          \* position of the matching
    extractedFrom       \* the text last handed to extractEntities

aiVars == <<question, notes, relevantRecordings, context, usedRecordings, pcAi,
            prevRelevant, prevQuestion, prevContext, dateNow, prevNow>>
dbVars == <<projects, recordings, tasks, suggestions, nextId, clock, ret>>
ccVars == <<attempts, rowLock>>
clVars == <<noteText, detection, redetection, pcClassify>>
tmVars == <<newText, pendingTasks, potentialMatches, taskCompletion, pcMatcher,
            extractedFrom>>
vars == <<aiVars, dbVars, ccVars, clVars, tmVars>>

\* SQL NULL / JavaScript null in a column or parameter that otherwise holds an id
\* (SERIAL ids start at 1)
NULL == 0

(***************************************************************************)
(* String helpers (JavaScript String methods).                             *)
(***************************************************************************)
UpperCase == <<"A","B","C","D","E","F","G","H","I","J","K","L","M",
               "N","O","P","Q","R","S","T","U","V","W","X","Y","Z">>
LowerCase == <<"a","b","c","d","e","f","g","h","i","j","k","l","m",
               "n","o","p","q","r","s","t","u","v","w","x","y","z">>

toLowerChar(c) ==
    IF \E i \in 1..26 : UpperCase[i] = c
    THEN LowerCase[CHOOSE i \in 1..26 : UpperCase[i] = c]
    ELSE c

\* String.prototype.toLowerCase
toLowerCase(s) == [i \in 1..Len(s) |-> toLowerChar(s[i])]

\* the characters the regex class \s and trim() treat as white space
IsSpace(c) == c \in {" ", "\t", "\n", "\r"}

\* the line terminators the regex '.' does not match
IsLineTerminator(c) == c \in {"\n", "\r"}

\* String.prototype.includes
includes(s, w) == \E i \in 0..(Len(s) - Len(w)) : SubSeq(s, i + 1, i + Len(w)) = w

RECURSIVE SplitAcc(_, _, _, _)
SplitAcc(s, i, cur, acc) ==
    IF i > Len(s) THEN Append(acc, cur)
    ELSE IF IsSpace(s[i])
         THEN IF i > 1 /\ IsSpace(s[i - 1])
              THEN SplitAcc(s, i + 1, cur, acc)
              ELSE SplitAcc(s, i + 1, <<>>, Append(acc, cur))
         ELSE SplitAcc(s, i + 1, Append(cur, s[i]), acc)

\* s.split(/\s+/): the pieces between maximal runs of white space
split(s) == SplitAcc(s, 1, <<>>, <<>>)

\* Array.prototype.slice(0, n)
slice(seq, n) == SubSeq(seq, 1, IF n < Len(seq) THEN n ELSE Len(seq))

\* Array.prototype.sort((a, b) => key(b) - key(a)), keys[i] being key(seq[i]):
\* descending by key, and stable (elements with equal keys keep their order)
\* bug: a sort that is not stable, leaving equal keys in reverse order
sort_tiesReversed(seq, keys) ==
    LET n == Len(seq)
        pos(i) == 1 + Cardinality({j \in 1..n :
                        \/ keys[j] > keys[i]
                        \/ (keys[j] = keys[i] /\ j > i)})
    IN  [p \in 1..n |-> seq[CHOOSE i \in 1..n : pos(i) = p]]

sort(seq, keys) ==
    LET n == Len(seq)
        pos(i) == 1 + Cardinality({j \in 1..n :
                        \/ keys[j] > keys[i]
                        \/ (keys[j] = keys[i] /\ j < i)})
    IN  [p \in 1..n |-> seq[CHOOSE i \in 1..n : pos(i) = p]]

RECURSIVE SumSeq(_)
SumSeq(seq) == IF seq = <<>> THEN 0 ELSE Head(seq) + SumSeq(Tail(seq))

Min(a, b) == IF a < b THEN a ELSE b

(***************************************************************************)
(* aiProcessor.js                                                          *)
(***************************************************************************)
MAX_RECORDINGS_PER_QUERY == 15
MAX_CONTEXT_LENGTH == 3000

MsPerDay == 1000 * 60 * 60 * 24
\* Date.now() while the question is answered
Now == 20 * MsPerDay

\* Object.values(recording.entities): each value is an array of strings,
\* or something that is not an array
ArrayOf(items) == [isArray |-> TRUE, items |-> items]
NotArray == [isArray |-> FALSE, items |-> <<>>]

\* recording.text.length: the text is its leading characters r.text followed by
\* r.pad filler characters ('.') that occur in no question and no entity
TextLength(r) == Len(r.text) + r.pad

\* questionLower.split(/\s+/).filter(word => word.length > 2)
LongWord(w) == Len(w) > 2
questionWords(q) == SelectSeq(split(toLowerCase(q)), LongWord)

\* questionWords.forEach(word => { if (recordingText.includes(word)) score += 10 })
RECURSIVE KeywordScore(_, _)
KeywordScore(words, recordingText) ==
    IF words = <<>> THEN 0
    ELSE (IF includes(recordingText, Head(words)) THEN 10 ELSE 0)
         + KeywordScore(Tail(words), recordingText)

\* entityArray.forEach(entity => { if (questionLower.includes(entity.toLowerCase())) score += 15 })
RECURSIVE EntityArrayScore(_, _)
EntityArrayScore(entityArray, questionLower) ==
    IF entityArray = <<>> THEN 0
    ELSE (IF includes(questionLower, toLowerCase(Head(entityArray))) THEN 15 ELSE 0)
         + EntityArrayScore(Tail(entityArray), questionLower)

\* if (recording.entities) Object.values(recording.entities).forEach(... Array.isArray ...)
RECURSIVE EntityScore(_, _)
EntityScore(values, questionLower) ==
    IF values = <<>> THEN 0
    ELSE (IF ~Head(values).isArray THEN 0
          ELSE EntityArrayScore(Head(values).items, questionLower))
         + EntityScore(Tail(values), questionLower)

\* bug: the boost for the recordings of the last 7 days is forgotten
RecencyScore_dayOnly(r) ==
    IF dateNow - r.timestamp < 1 * MsPerDay THEN 3 ELSE 0

\* if (daysOld < 7) score += 2; if (daysOld < 1) score += 3;
RecencyScore(r) ==
    (IF dateNow - r.timestamp < 7 * MsPerDay THEN 2 ELSE 0)
    + (IF dateNow - r.timestamp < 1 * MsPerDay THEN 3 ELSE 0)

relevanceScore(q, r) ==
    KeywordScore(questionWords(q), toLowerCase(r.text))
    + EntityScore(r.entities, toLowerCase(q))
    + RecencyScore(r)

\* recordings.map(recording => ({ ...recording, relevanceScore: score }))
scoredRecordings(q, recs) ==
    [i \in 1..Len(recs) |->
        [id |-> recs[i].id, text |-> recs[i].text, pad |-> recs[i].pad,
         dlen |-> recs[i].dlen, timestamp |-> recs[i].timestamp,
         entities |-> recs[i].entities,
         relevanceScore |-> relevanceScore(q, recs[i])]]

HasRelevance(r) == r.relevanceScore > 0
\* the recordings with a positive score, in the order of the array
withRelevance(q, recs) == SelectSeq(scoredRecordings(q, recs), HasRelevance)

\* the sort keys of a comparator (a, b) => b.relevanceScore - a.relevanceScore
scoreKeys(seq) == [i \in 1..Len(seq) |-> seq[i].relevanceScore]
\* bug: the comparator is new Date(a.timestamp) - new Date(b.timestamp) (oldest first)
timestampKeys_ascending(seq) == [i \in 1..Len(seq) |-> 0 - seq[i].timestamp]

\* the sort keys of a comparator (a, b) => new Date(b.timestamp) - new Date(a.timestamp)
timestampKeys(seq) == [i \in 1..Len(seq) |-> seq[i].timestamp]

\* bug: the slice(0, MAX_RECORDINGS_PER_QUERY) is forgotten
topRelevant_noSlice(q, recs) ==
    sort(withRelevance(q, recs), scoreKeys(withRelevance(q, recs)))

\* bug: the comparator is a.relevanceScore - b.relevanceScore (ascending)
ascendingKeys(seq) == [i \in 1..Len(seq) |-> 0 - seq[i].relevanceScore]
topRelevant_ascending(q, recs) ==
    slice(sort(withRelevance(q, recs), ascendingKeys(withRelevance(q, recs))),
          MAX_RECORDINGS_PER_QUERY)

\* .filter(r => r.relevanceScore > 0).sort(...).slice(0, MAX_RECORDINGS_PER_QUERY)
topRelevant(q, recs) ==
    slice(sort(withRelevance(q, recs), scoreKeys(withRelevance(q, recs))),
          MAX_RECORDINGS_PER_QUERY)

\* bug: the array is reversed in place instead of sorted
sortedByRecency_reversing(recs) == [i \in 1..Len(recs) |-> recs[Len(recs) + 1 - i]]

\* recordings.sort(by timestamp, newest first): sorts the caller's array in place
sortedByRecency(recs) == sort(recs, timestampKeys(recs))

\* bug: no fallback to the most recent recordings
filterRelevantRecordings_noFallback(q, recs) ==
    [result |-> topRelevant(q, recs), array |-> recs]

\* filterRelevantRecordings: what it returns, and the caller's array afterwards
filterRelevantRecordings(q, recs) ==
    IF recs = <<>> THEN [result |-> <<>>, array |-> recs]
    ELSE IF topRelevant(q, recs) = <<>>
         THEN [result |-> slice(sortedByRecency(recs), Min(5, Len(recs))),
               array  |-> sortedByRecency(recs)]
         ELSE [result |-> topRelevant(q, recs), array |-> recs]

\* `[${new Date(recording.timestamp).toLocaleDateString()}] ${recording.text}\n`.length
\* r.dlen is the length of the localized date
RenderedLength(r) == 1 + r.dlen + 1 + 1 + TextLength(r) + 1

\* context.length
ContextLength(ctx) == SumSeq([i \in 1..Len(ctx) |-> ctx[i].len])

\* bug: the length of the line about to be added is not counted
Overflows_ignoringNewLine(ctx, r) == ContextLength(ctx) > MAX_CONTEXT_LENGTH

\* if (context.length + recordingText.length > this.MAX_CONTEXT_LENGTH) break
Overflows(ctx, r) == ContextLength(ctx) + RenderedLength(r) > MAX_CONTEXT_LENGTH

\* bug: a recording that does not fit is skipped and the loop goes on
RECURSIVE trimContext_skipping(_, _)
trimContext_skipping(recs, ctx) ==
    IF recs = <<>> THEN ctx
    ELSE IF Overflows(ctx, Head(recs)) THEN trimContext_skipping(Tail(recs), ctx)
         ELSE trimContext_skipping(Tail(recs),
                                   Append(ctx, [id |-> Head(recs).id,
                                                len |-> RenderedLength(Head(recs))]))

\* trimContext: the loop over the selected recordings
RECURSIVE trimContext(_, _)
trimContext(recs, ctx) ==
    IF recs = <<>> THEN ctx
    ELSE IF Overflows(ctx, Head(recs)) THEN ctx
         ELSE trimContext(Tail(recs),
                          Append(ctx, [id |-> Head(recs).id,
                                       len |-> RenderedLength(Head(recs))]))

\* generateResponse, lines 192-194: the figure of the contextInfo line
\* "showing answer based on K most relevant ones", <<K>>, or <<>> when the
\* line is left out
contextInfo(relevant, recs) ==
    IF Len(relevant) < Len(recs) THEN <<Len(relevant)>> ELSE <<>>

\* Math.ceil(n / 4)
CeilQuarter(n) == (n + 3) \div 4

\* estimateTokenUsage(question, recordings), lines 212-226 (the cost string,
\* a multiple of estimatedTokens, is left out)
estimateTokenUsage(q, recs) ==
    LET relevant == filterRelevantRecordings(q, recs).result
        ctx == trimContext(relevant, <<>>)
    IN  [totalRecordings |-> Len(recs),
         relevantRecordings |-> Len(relevant),
         estimatedTokens |-> CeilQuarter(Len(q) + ContextLength(ctx) + 200)]

(***************************************************************************)
(* database.js: helpers                                                    *)
(***************************************************************************)
\* String.prototype.trim
RECURSIVE trimStart(_)
trimStart(s) == IF s # <<>> /\ IsSpace(Head(s)) THEN trimStart(Tail(s)) ELSE s
RECURSIVE trimEnd(_)
trimEnd(s) ==
    IF s # <<>> /\ IsSpace(s[Len(s)]) THEN trimEnd(SubSeq(s, 1, Len(s) - 1)) ELSE s
trim(s) == trimEnd(trimStart(s))

\* text.trim().split(/\s+/).length
wordCount(text) == Len(split(trim(text)))

\* a table with one more row / without some rows
Insert(table, id, row) == table @@ (id :> row)
Delete(table, ids) == [i \in (DOMAIN table) \ ids |-> table[i]]

\* index of the first ':' of the text, 0 when there is none
FirstColon(text) ==
    IF \E i \in 1..Len(text) : text[i] = ":"
    THEN CHOOSE i \in 1..Len(text) :
            text[i] = ":" /\ \A j \in 1..(i - 1) : text[j] # ":"
    ELSE 0

\* length of the longest prefix of s made of white space
RECURSIVE SpaceRun(_)
SpaceRun(s) == IF s # <<>> /\ IsSpace(Head(s)) THEN 1 + SpaceRun(Tail(s)) ELSE 0

\* the longest prefix of s without a line terminator: what (.+) can take
RECURSIVE LineOf(_)
LineOf(s) ==
    IF s = <<>> \/ IsLineTerminator(Head(s)) THEN <<>>
    ELSE <<Head(s)>> \o LineOf(Tail(s))

\* the numbers of white-space characters \s* can take after the colon so that
\* (.+) still finds a character to match
SpaceTakes(rest) ==
    {k \in 0..SpaceRun(rest) : k < Len(rest) /\ ~IsLineTerminator(rest[k + 1])}

Max(S) == CHOOSE x \in S : \A y \in S : y <= x

\* text.match(/^([^:]+):\s*(.+)/): <<>> when there is no match, else
\* << [name |-> group 1, content |-> group 2] >>
projectMatch(text) ==
    LET c == FirstColon(text)
        rest == SubSeq(text, c + 1, Len(text))
    IN  IF c < 2 \/ SpaceTakes(rest) = {} THEN <<>>
        ELSE << [name    |-> SubSeq(text, 1, c - 1),
                 content |-> LineOf(SubSeq(rest, Max(SpaceTakes(rest)) + 1, Len(rest)))] >>

(***************************************************************************)
(* database.js: queries                                                    *)
(***************************************************************************)
N_General == <<"G","e","n","e","r","a","l">>

\* bug: the query forgets AND is_active = true
activeProjectsNamed_anyStatus(projs, name) ==
    {p \in DOMAIN projs : toLowerCase(projs[p].name) = toLowerCase(name)}

\* bug: the name is looked for inside the segment (a substring match)
activeProjectsNamed_contained(projs, name) ==
    {p \in DOMAIN projs :
        includes(toLowerCase(name), toLowerCase(projs[p].name)) /\ projs[p].is_active}

\* SELECT * FROM projects WHERE LOWER(name) = LOWER($1) AND is_active = true
activeProjectsNamed(projs, name) ==
    {p \in DOMAIN projs :
        toLowerCase(projs[p].name) = toLowerCase(name) /\ projs[p].is_active}

\* detectProjectFromText: the values it can return, {} standing for null
\* (result.rows[0] is any of the matching rows)
detectProjectFromText(projs, text) ==
    IF projectMatch(text) = <<>> THEN {}
    ELSE {[project |-> p, cleanedText |-> trim(projectMatch(text)[1].content)] :
            p \in activeProjectsNamed(projs, trim(projectMatch(text)[1].name))}

\* bug: the fallback query forgets AND is_active = true
activeGeneral_anyStatus(projs) == {p \in DOMAIN projs : projs[p].name = N_General}

\* SELECT id FROM projects WHERE name = 'General' AND is_active = true LIMIT 1
activeGeneral(projs) ==
    {p \in DOMAIN projs : projs[p].name = N_General /\ projs[p].is_active}

\* SELECT id FROM projects WHERE name = 'General' LIMIT 1
anyGeneral(projs) == {p \in DOMAIN projs : projs[p].name = N_General}

\* saveRecording, lines 1250-1271: the (project_id, text) pairs it can store
saveTargets(projs, text, projectId) ==
    LET detected == IF projectId # NULL THEN {}
                    ELSE detectProjectFromText(projs, text)
        chosen == IF detected = {}
                  THEN {[project |-> projectId, cleanedText |-> text]}
                  ELSE detected
    IN  UNION {IF d.project # NULL THEN {d}
               ELSE IF activeGeneral(projs) = {} THEN {d}
               ELSE {[project |-> g, cleanedText |-> d.cleanedText] :
                        g \in activeGeneral(projs)} : d \in chosen}

\* the unique constraint behind error code 23505: a name is unique, ignoring
\* case, among the active projects
nameTaken(projs, self, name) ==
    \E p \in (DOMAIN projs) \ {self} :
        projs[p].is_active /\ toLowerCase(projs[p].name) = toLowerCase(name)

\* bug: the update forgets AND status = 'pending'
matchesPending_anyStatus(tbl, taskId) == taskId \in DOMAIN tbl

\* UPDATE tasks ... WHERE id = $1 AND status = 'pending': the row it matches
matchesPending(tbl, taskId) == taskId \in DOMAIN tbl /\ tbl[taskId].status = "pending"

\* UPDATE tasks SET status = 'completed', completed_at = NOW(),
\*                  completed_by_recording_id = $2 WHERE ...
completeTaskUpdate(tbl, taskId, completedByRecordingId, now) ==
    IF matchesPending(tbl, taskId)
    THEN [tbl EXCEPT ![taskId] =
            [@ EXCEPT !.status = "completed",
                      !.completed_at = now,
                      !.completed_by_recording_id = completedByRecordingId]]
    ELSE tbl

\* UPDATE task_completion_suggestions SET status = $2 WHERE id = $1
respondUpdate(sugg, suggestionId, response) ==
    [sugg EXCEPT ![suggestionId] = [@ EXCEPT !.status = response]]

(***************************************************************************)
(* database.js: the task matcher                                           *)
(***************************************************************************)
completionKeywords ==
    << <<"d","o","n","e">>,
       <<"f","i","n","i","s","h","e","d">>,
       <<"c","o","m","p","l","e","t","e","d">>,
       <<"c","a","l","l","e","d">>,
       <<"t","a","l","k","e","d"," ","t","o">>,
       <<"m","e","t"," ","w","i","t","h">>,
       <<"s","p","o","k","e"," ","t","o">>,
       <<"e","m","a","i","l","e","d">>,
       <<"s","e","n","t">>,
       <<"b","o","u","g","h","t">>,
       <<"p","i","c","k","e","d"," ","u","p">>,
       <<"d","r","o","p","p","e","d"," ","o","f","f">>,
       <<"s","c","h","e","d","u","l","e","d">>,
       <<"b","o","o","k","e","d">> >>

\* completionKeywords.filter(keyword => recordingLower.includes(keyword))
detectedKeywords(recordingLower) ==
    LET Included(keyword) == includes(recordingLower, keyword)
    IN  SelectSeq(completionKeywords, Included)

\* bug: the gate is forgotten
hasCompletionKeyword_always(recordingLower) == TRUE

\* completionKeywords.some(keyword => recordingLower.includes(keyword))
hasCompletionKeyword(recordingLower) ==
    \E i \in 1..Len(completionKeywords) : includes(recordingLower, completionKeywords[i])

\* taskDescription.split(/\s+/).filter(word => word.length > 2)
taskWords(description) == SelectSeq(split(toLowerCase(description)), LongWord)

\* taskWords.filter(word => recordingLower.includes(word))
matchingWords(description, recordingLower) ==
    LET Included(word) == includes(recordingLower, word)
    IN  SelectSeq(taskWords(description), Included)

\* bug: the half of the word count is rounded down
significantOverlap_floor(description, recordingLower) ==
    Len(matchingWords(description, recordingLower)) >=
        Min(2, Len(taskWords(description)) \div 2)

\* matchingWords.length >= Math.min(2, taskWords.length * 0.5), both sides doubled
significantOverlap(description, recordingLower) ==
    2 * Len(matchingWords(description, recordingLower)) >=
        Min(4, Len(taskWords(description)))

\* the object pushed for a task; confidence is the quotient
\* matchingWords.length / taskWords.length, kept as numerator and denominator
potentialMatch(task, recordingLower, recordingId) ==
    [taskId |-> task.id,
     taskDescription |-> task.task_description,
     recordingId |-> recordingId,
     matchingWords |-> matchingWords(task.task_description, recordingLower),
     confidence |-> [num |-> Len(matchingWords(task.task_description, recordingLower)),
                     den |-> Len(taskWords(task.task_description))]]

\* for (const task of pendingTasks) { ... potentialMatches.push(...) }
RECURSIVE matchesOf(_, _, _)
matchesOf(pending, recordingLower, recordingId) ==
    IF pending = <<>> THEN <<>>
    ELSE (IF significantOverlap(Head(pending).task_description, recordingLower)
          THEN <<potentialMatch(Head(pending), recordingLower, recordingId)>>
          ELSE <<>>)
         \o matchesOf(Tail(pending), recordingLower, recordingId)

\* 0 / 0
IsNaN(confidence) == confidence.den = 0

RECURSIVE DenProduct(_)
DenProduct(seq) ==
    IF seq = <<>> THEN 1 ELSE Head(seq).confidence.den * DenProduct(Tail(seq))

\* the sort keys of a comparator (a, b) => b.confidence - a.confidence, the
\* quotients brought to the common denominator DenProduct(seq)
confidenceKeys(seq) ==
    [i \in 1..Len(seq) |->
        (seq[i].confidence.num * DenProduct(seq)) \div seq[i].confidence.den]

Reorderings(seq) ==
    {[i \in 1..Len(seq) |-> seq[f[i]]] :
        f \in {g \in [1..Len(seq) -> 1..Len(seq)] :
                    \A i, j \in 1..Len(seq) : g[i] = g[j] => i = j}}

\* potentialMatches.sort((a, b) => b.confidence - a.confidence): the orders
\* it can leave.  A difference with NaN is NaN, which sort takes for 0; among
\* three or more elements that comparator is inconsistent and the order is
\* implementation-defined.
sortedByConfidence(seq) ==
    IF \A i \in 1..Len(seq) : ~IsNaN(seq[i].confidence)
    THEN {sort(seq, confidenceKeys(seq))}
    ELSE IF Len(seq) <= 2 THEN {seq}
    ELSE Reorderings(seq)

\* findPotentialTaskCompletions(recordingText, recordingId) over the rows of
\* getPendingTasks(): the arrays it can return
findPotentialTaskCompletions(pending, recordingText, recordingId) ==
    IF Len(pending) = 0 THEN {<<>>}
    ELSE IF hasCompletionKeyword(toLowerCase(recordingText))
         THEN sortedByConfidence(
                matchesOf(pending, toLowerCase(recordingText), recordingId))
         ELSE {<<>>}

\* detectTaskCompletion(recordingText, recordingId), lines 947-979
detectTaskCompletion(recordingText, recordingId) ==
    IF Len(detectedKeywords(toLowerCase(recordingText))) > 0
    THEN [hasCompletion |-> TRUE,
          keywords |-> detectedKeywords(toLowerCase(recordingText)),
          recordingId |-> recordingId,
          recordingText |-> recordingText]
    ELSE [hasCompletion |-> FALSE]

(***************************************************************************)
(* Inputs of the relevance engine: questions, notes and added terms.       *)
(***************************************************************************)
MaxHead == 2    \* notes chosen freely from the catalogue at the front of the list
MaxTail == 15   \* the longest run of further notes of one kind appended behind them

Join(a, b) == a \o <<" ">> \o b

W_dog == <<"d","o","g">>
W_cat == <<"c","a","t">>
W_bob == <<"B","o","b">>
W_bobcat == <<"b","o","b","c","a","t">>
W_eel == <<"e","e","l">>
W_owl == <<"O","w","l">>
W_at == <<"a","t">>

Questions == {W_dog, W_owl, Join(W_bob, W_cat)}
Terms == {W_bobcat, W_cat, W_at}

\* old note mentioning dog and bobcat, no entities
KindA == [text |-> Join(W_dog, W_bobcat), pad |-> 0, dlen |-> 9,
          timestamp |-> Now - 8 * MsPerDay, entities |-> <<>>]
\* older note mentioning dog, with the person "Bob" and a malformed category
KindB == [text |-> W_dog, pad |-> 0, dlen |-> 9,
          timestamp |-> Now - 9 * MsPerDay, entities |-> <<ArrayOf(<<W_bob>>), NotArray>>]
\* a note from today that alone is longer than the context budget
KindD == [text |-> W_dog, pad |-> 3100, dlen |-> 10,
          timestamp |-> Now - 1, entities |-> <<ArrayOf(<<>>)>>]
\* a two-day-old note whose rendered line is exactly 1500 characters
KindF == [text |-> W_cat, pad |-> 1485, dlen |-> 8,
          timestamp |-> Now - 2 * MsPerDay, entities |-> <<>>]
\* an old short note about something else
KindE == [text |-> W_eel, pad |-> 0, dlen |-> 8,
          timestamp |-> Now - 10 * MsPerDay, entities |-> <<>>]
\* a short three-day-old note mentioning dog
KindR == [text |-> W_dog, pad |-> 0, dlen |-> 8,
          timestamp |-> Now - 3 * MsPerDay, entities |-> <<>>]

Catalogue == {KindA, KindB, KindD, KindF, KindE}
TailKinds == {KindR, KindE}

Heads == UNION {[1..h -> Catalogue] : h \in 0..MaxHead}
TailLengths == {0, 1, 4, MaxTail}
Tails == {[i \in 1..k |-> kind] : k \in TailLengths, kind \in TailKinds}

\* the recordings as getAllRecordings returns them: each with its id
WithIds(seq) ==
    [i \in 1..Len(seq) |->
        [id |-> i, text |-> seq[i].text, pad |-> seq[i].pad, dlen |-> seq[i].dlen,
         timestamp |-> seq[i].timestamp, entities |-> seq[i].entities]]

NoteLists == {WithIds(h \o t) : h \in Heads, t \in Tails}

(***************************************************************************)
(* Initial states.                                                         *)
(***************************************************************************)
NoOne == "none"

AiIdle ==
    /\ question = <<>>
    /\ notes = <<>>
    /\ relevantRecordings = <<>>
    /\ context = <<>>
    /\ usedRecordings = 0
    /\ pcAi = "idle"
    /\ prevRelevant = <<>>
    /\ prevQuestion = <<>>
    /\ prevContext = <<>>
    /\ dateNow = Now
    /\ prevNow = Now

DbInit ==
    /\ projects = <<>>
    /\ recordings = <<>>
    /\ tasks = <<>>
    /\ suggestions = <<>>
    /\ nextId = [projects |-> 1, recordings |-> 1, tasks |-> 1, suggestions |-> 1]
    /\ clock = 1
    /\ ret = [op |-> "none"]

CcIdle ==
    /\ attempts = <<>>
    /\ rowLock = {}

ClIdle ==
    /\ noteText = <<>>
    /\ detection = <<>>
    /\ redetection = <<>>
    /\ pcClassify = "idle"

TmIdle ==
    /\ newText = <<>>
    /\ pendingTasks = <<>>
    /\ potentialMatches = <<>>
    /\ taskCompletion = [hasCompletion |-> FALSE]
    /\ pcMatcher = "idle"
    /\ extractedFrom = <<>>

(***************************************************************************)
(* Answering a question (generateResponse / estimateTokenUsage).           *)
(***************************************************************************)
AiInit ==
    /\ question \in Questions
    /\ notes \in NoteLists
    /\ relevantRecordings = <<>>
    /\ context = <<>>
    /\ usedRecordings = 0
    /\ pcAi = "start"
    /\ prevRelevant = <<>>
    /\ prevQuestion = <<>>
    /\ prevContext = <<>>
    /\ dateNow = Now
    /\ prevNow = Now

\* const relevantRecordings = this.filterRelevantRecordings(question, recordings)
FilterRelevantRecordings ==
    /\ pcAi = "start"
    /\ relevantRecordings' = filterRelevantRecordings(question, notes).result
    /\ notes' = filterRelevantRecordings(question, notes).array
    /\ pcAi' = "filtered"
    /\ UNCHANGED <<question, context, usedRecordings, prevRelevant, prevQuestion,
                   prevContext, dateNow, prevNow>>

\* const context = this.trimContext(relevantRecordings)
TrimContext ==
    /\ pcAi = "filtered"
    /\ context' = trimContext(relevantRecordings, <<>>)
    /\ usedRecordings' = Len(trimContext(relevantRecordings, <<>>))
    /\ pcAi' = "trimmed"
    /\ UNCHANGED <<question, notes, relevantRecordings, prevRelevant, prevQuestion,
                   prevContext, dateNow, prevNow>>

\* the caller asks again over the same array, with one more term in the question
AskExtended(t) ==
    /\ pcAi = "trimmed"
    /\ prevQuestion = <<>>
    /\ prevQuestion' = <<question>>
    /\ prevRelevant' = relevantRecordings
    /\ question' = Join(question, t)
    /\ relevantRecordings' = <<>>
    /\ context' = <<>>
    /\ usedRecordings' = 0
    /\ pcAi' = "start"
    /\ UNCHANGED <<notes, prevContext, dateNow, prevNow>>

InitAi == AiInit /\ DbInit /\ CcIdle /\ ClIdle /\ TmIdle
NextAi ==
    \/ FilterRelevantRecordings /\ UNCHANGED <<dbVars, ccVars, clVars, tmVars>>
    \/ TrimContext /\ UNCHANGED <<dbVars, ccVars, clVars, tmVars>>
    \/ \E t \in Terms : AskExtended(t) /\ UNCHANGED <<dbVars, ccVars, clVars, tmVars>>
SpecAi == InitAi /\ [][NextAi]_vars

(***************************************************************************)
(* Inputs of the database operations.                                      *)
(***************************************************************************)
MaxRecordings == 2    \* recordings ever saved
MaxProjects == 2      \* projects ever created
MaxSuggestions == 1   \* completion suggestions ever stored

N_Work == <<"W","o","r","k">>
ProjectNames == {N_General, N_Work}

\* "hi", "work: hi" and "General: hi"
T_hi == <<"h","i">>
T_workHi == <<"w","o","r","k",":"," ","h","i">>
T_GeneralHi == N_General \o <<":"," ","h","i">>
Texts == {T_hi, T_workHi, T_GeneralHi}

\* entities.tasks as extractEntities may return it
D_callBob == <<"c","a","l","l"," ","B","o","b">>
TaskLists == {<<>>, <<D_callBob>>}

Responses == {"confirmed", "rejected"}

\* the updates object of updateProject: a new name and/or a new active flag
Updates ==
    {[hasName |-> TRUE, name |-> n, hasActive |-> FALSE, is_active |-> FALSE] :
        n \in ProjectNames}
    \cup {[hasName |-> FALSE, name |-> <<>>, hasActive |-> TRUE, is_active |-> b] :
        b \in BOOLEAN}

RecordingIds == 1..MaxRecordings
TaskIds == 1..MaxRecordings
ProjectIds == 1..MaxProjects
SuggestionIds == 1..MaxSuggestions

(***************************************************************************)
(* database.js: the operations, each one transaction.                      *)
(***************************************************************************)
\* insertEntities: the rows added to tasks for entities.tasks
newTasks(recordingId, taskList, firstId) ==
    [t \in firstId..(firstId + Len(taskList) - 1) |->
        [recording_id |-> recordingId,
         task_description |-> taskList[t - firstId + 1],
         status |-> "pending",
         completed_at |-> NULL,
         completed_by_recording_id |-> NULL]]

\* saveRecording(text, entities, projectId), lines 1244-1310
SaveRecording(text, taskList, projectId) ==
    /\ nextId.recordings <= MaxRecordings
    /\ \E target \in saveTargets(projects, text, projectId) :
        /\ recordings' = Insert(recordings, nextId.recordings,
                                [text |-> target.cleanedText,
                                 word_count |-> wordCount(target.cleanedText),
                                 project_id |-> target.project,
                                 timestamp |-> clock])
        /\ ret' = [op |-> "saveRecording", arg |-> text, projectId |-> projectId,
                   id |-> nextId.recordings]
    /\ tasks' = tasks @@ newTasks(nextId.recordings, taskList, nextId.tasks)
    /\ nextId' = [nextId EXCEPT !.recordings = @ + 1, !.tasks = @ + Len(taskList)]
    /\ clock' = clock + 1
    /\ UNCHANGED <<projects, suggestions>>

\* deleteRecording(recordingId), lines 710-747; the suggestions of a deleted
\* task or recording go with it (ON DELETE CASCADE, lines 568-569).  Tasks are
\* deleted by recording_id only: a task completed by the deleted note keeps
\* its completed_by_recording_id.
DeleteRecording(recordingId) ==
    LET gone == {t \in DOMAIN tasks : tasks[t].recording_id = recordingId}
    IN  /\ tasks' = Delete(tasks, gone)
        /\ suggestions' = Delete(suggestions,
                {g \in DOMAIN suggestions :
                    \/ suggestions[g].task_id \in gone
                    \/ suggestions[g].recording_id = recordingId})
        /\ recordings' = Delete(recordings, {recordingId})
        /\ ret' = [op |-> "deleteRecording", arg |-> recordingId]
        /\ UNCHANGED <<projects, nextId, clock>>

\* completeTask(taskId, completedByRecordingId), lines 911-944
CompleteTask(taskId, completedByRecordingId) ==
    /\ tasks' = completeTaskUpdate(tasks, taskId, completedByRecordingId, clock)
    /\ ret' = [op |-> "completeTask", arg |-> taskId, by |-> completedByRecordingId,
               rows |-> IF matchesPending(tasks, taskId) THEN 1 ELSE 0]
    /\ clock' = IF matchesPending(tasks, taskId) THEN clock + 1 ELSE clock
    /\ UNCHANGED <<projects, recordings, suggestions, nextId>>

\* createTaskCompletionSuggestion(taskId, recordingId, ...), lines 562-590:
\* the insert fails on a task or recording that does not exist (REFERENCES)
CreateTaskCompletionSuggestion(taskId, recordingId) ==
    /\ nextId.suggestions <= MaxSuggestions
    /\ IF taskId \in DOMAIN tasks /\ recordingId \in DOMAIN recordings
       THEN /\ suggestions' = Insert(suggestions, nextId.suggestions,
                                     [task_id |-> taskId, recording_id |-> recordingId,
                                      status |-> "pending"])
            /\ nextId' = [nextId EXCEPT !.suggestions = @ + 1]
            /\ ret' = [op |-> "createTaskCompletionSuggestion",
                       arg |-> taskId, id |-> nextId.suggestions]
       ELSE /\ ret' = [op |-> "createTaskCompletionSuggestion", arg |-> taskId,
                       id |-> NULL]
            /\ UNCHANGED <<suggestions, nextId>>
    /\ UNCHANGED <<projects, recordings, tasks, clock>>

\* respondToTaskSuggestion(suggestionId, response), lines 593-628
RespondToTaskSuggestion(suggestionId, response) ==
    IF suggestionId \notin DOMAIN suggestions
    THEN \* throw new Error('Suggestion not found'); ROLLBACK
         /\ ret' = [op |-> "respondToTaskSuggestion", arg |-> suggestionId,
                    response |-> response, found |-> FALSE, completed |-> FALSE]
         /\ UNCHANGED <<projects, recordings, tasks, suggestions, nextId, clock>>
    ELSE LET g == suggestions[suggestionId]
             completes == response = "confirmed" /\ matchesPending(tasks, g.task_id)
         IN  /\ suggestions' = respondUpdate(suggestions, suggestionId, response)
             /\ tasks' = IF response = "confirmed"
                         THEN completeTaskUpdate(tasks, g.task_id, g.recording_id, clock)
                         ELSE tasks
             /\ clock' = IF completes THEN clock + 1 ELSE clock
             /\ ret' = [op |-> "respondToTaskSuggestion", arg |-> suggestionId,
                        response |-> response, found |-> TRUE, completed |-> completes]
             /\ UNCHANGED <<projects, recordings, nextId>>

\* createProject(name), lines 1054-1071
CreateProject(name) ==
    /\ nextId.projects <= MaxProjects
    /\ IF nameTaken(projects, NULL, trim(name))
       THEN \* error.code === '23505': throw new Error('Project name already exists')
            /\ ret' = [op |-> "createProject", arg |-> name, id |-> NULL]
            /\ UNCHANGED <<projects, nextId>>
       ELSE /\ projects' = Insert(projects, nextId.projects,
                                  [name |-> trim(name), is_active |-> TRUE])
            /\ nextId' = [nextId EXCEPT !.projects = @ + 1]
            /\ ret' = [op |-> "createProject", arg |-> name, id |-> nextId.projects]
    /\ UNCHANGED <<recordings, tasks, suggestions, clock>>

\* the row updateProject writes: COALESCE($2, name), COALESCE($5, is_active)
updatedProject(row, updates) ==
    [name |-> IF updates.hasName THEN trim(updates.name) ELSE row.name,
     is_active |-> IF updates.hasActive THEN updates.is_active ELSE row.is_active]

\* updateProject(projectId, updates), lines 1074-1099
UpdateProject(projectId, updates) ==
    /\ IF /\ projectId \in DOMAIN projects
          /\ ~(/\ updatedProject(projects[projectId], updates).is_active
               /\ nameTaken(projects, projectId,
                            updatedProject(projects[projectId], updates).name))
       THEN /\ projects' = [projects EXCEPT
                                ![projectId] = updatedProject(@, updates)]
            /\ ret' = [op |-> "updateProject", arg |-> projectId, found |-> TRUE]
       ELSE \* 'Project not found', or the unique constraint rejects the update
            /\ ret' = [op |-> "updateProject", arg |-> projectId, found |-> FALSE]
            /\ UNCHANGED projects
    /\ UNCHANGED <<recordings, tasks, suggestions, nextId, clock>>

\* UPDATE recordings SET project_id = $1 WHERE project_id = $2
moveRecordings(recs, to, from) ==
    [r \in DOMAIN recs |->
        IF recs[r].project_id = from THEN [recs[r] EXCEPT !.project_id = to]
        ELSE recs[r]]

\* deleteProject(projectId), lines 1102-1152
DeleteProject(projectId) ==
    LET recordingCount ==
            Cardinality({r \in DOMAIN recordings :
                            recordings[r].project_id = projectId})
    IN  /\ IF recordingCount > 0 /\ anyGeneral(projects) # {}
           THEN \E g \in anyGeneral(projects) :
                    recordings' = moveRecordings(recordings, g, projectId)
           ELSE UNCHANGED recordings
        /\ IF projectId \in DOMAIN projects
           THEN projects' = [projects EXCEPT ![projectId].is_active = FALSE]
           ELSE UNCHANGED projects
        /\ ret' = [op |-> "deleteProject", arg |-> projectId,
                   movedRecordings |-> recordingCount]
        /\ UNCHANGED <<tasks, suggestions, nextId, clock>>

(***************************************************************************)
(* The life of notes, tasks and suggestions: the routes of server.js that  *)
(* save and delete notes, complete tasks and answer suggestions.           *)
(***************************************************************************)
Init == AiIdle /\ DbInit /\ CcIdle /\ ClIdle /\ TmIdle

Next ==
    \/ \E taskList \in TaskLists :
            SaveRecording(T_hi, taskList, NULL) /\ UNCHANGED <<aiVars, ccVars, clVars, tmVars>>
    \/ \E recordingId \in RecordingIds :
            DeleteRecording(recordingId) /\ UNCHANGED <<aiVars, ccVars, clVars, tmVars>>
    \/ \E taskId \in TaskIds, by \in {NULL} \cup DOMAIN recordings :
            CompleteTask(taskId, by) /\ UNCHANGED <<aiVars, ccVars, clVars, tmVars>>
    \/ \E taskId \in TaskIds, recordingId \in RecordingIds :
            CreateTaskCompletionSuggestion(taskId, recordingId)
                /\ UNCHANGED <<aiVars, ccVars, clVars, tmVars>>
    \/ \E suggestionId \in SuggestionIds, response \in Responses :
            RespondToTaskSuggestion(suggestionId, response)
                /\ UNCHANGED <<aiVars, ccVars, clVars, tmVars>>
    \/ CreateProject(N_General) /\ UNCHANGED <<aiVars, ccVars, clVars, tmVars>>
    \/ DeleteProject(1) /\ UNCHANGED <<aiVars, ccVars, clVars, tmVars>>

Spec == Init /\ [][Next]_vars

(***************************************************************************)
(* The life of projects and of the notes filed under them.                 *)
(***************************************************************************)
NextProjects ==
    \/ \E text \in Texts, projectId \in {NULL} \cup DOMAIN projects :
            SaveRecording(text, <<>>, projectId) /\ UNCHANGED <<aiVars, ccVars, clVars, tmVars>>
    \/ \E name \in ProjectNames :
            CreateProject(name) /\ UNCHANGED <<aiVars, ccVars, clVars, tmVars>>
    \/ \E projectId \in ProjectIds, updates \in Updates :
            UpdateProject(projectId, updates) /\ UNCHANGED <<aiVars, ccVars, clVars, tmVars>>
    \/ \E projectId \in ProjectIds :
            DeleteProject(projectId) /\ UNCHANGED <<aiVars, ccVars, clVars, tmVars>>

SpecProjects == Init /\ [][NextProjects]_vars

(***************************************************************************)
(* Classifying one text (detectProjectFromText), for the project tables    *)
(* the operations above can leave behind.                                  *)
(***************************************************************************)
Project(name, active) == [name |-> name, is_active |-> active]

N_work == <<"w","o","r","k">>
N_Wok == <<"W","o","k">>

ProjectTables ==
    { <<>>,
      <<Project(N_Work, TRUE), Project(N_General, TRUE)>>,
      <<Project(N_Work, FALSE), Project(N_General, TRUE)>>,
      <<Project(N_Work, FALSE), Project(N_work, TRUE)>> }

\* what a text starts with, what follows the name, and the rest of the text
Leads == {N_Work, N_work, N_Wok, N_General, <<" ">> \o N_Work,
          <<"x", "\n">> \o N_Work}
Separators == {<<":", " ">>, <<":">>, <<" ", ":", " ">>, <<",", " ">>, <<".", " ">>,
               <<" ">>}
R_hi == <<"h","i">>
R_ab == <<"a",":","b">>
R_twoLines == <<"h","i","\n","x">>
R_trailing == <<"h","i"," ">>
R_nameLater == <<"s","e","e"," ">> \o N_Work \o <<":"," ","x">>
R_nameFirst == N_Work \o <<":"," ","x">>
R_nameSpaced == N_Work \o <<" ",":"," ","x">>
Rests == {R_hi, R_ab, R_twoLines, R_trailing, R_nameLater, R_nameFirst, R_nameSpaced}

ClassifierTexts ==
    {lead \o sep \o rest : lead \in Leads, sep \in Separators, rest \in Rests}

\* null or the pair detectProjectFromText returns
detections(projs, text) ==
    IF detectProjectFromText(projs, text) = {} THEN {<<>>}
    ELSE {<<d>> : d \in detectProjectFromText(projs, text)}

ClInit ==
    /\ projects \in ProjectTables
    /\ nextId = [projects |-> Len(projects) + 1, recordings |-> 1, tasks |-> 1,
                 suggestions |-> 1]
    /\ recordings = <<>>
    /\ tasks = <<>>
    /\ suggestions = <<>>
    /\ clock = 1
    /\ ret = [op |-> "none"]
    /\ noteText \in ClassifierTexts
    /\ detection = <<>>
    /\ redetection = <<>>
    /\ pcClassify = "start"

\* const projectDetection = await this.detectProjectFromText(text)
Classify ==
    /\ pcClassify = "start"
    /\ detection' \in detections(projects, noteText)
    /\ pcClassify' = "classified"
    /\ UNCHANGED <<noteText, redetection>>

\* the text that was stored is classified once more
ClassifyAgain ==
    /\ pcClassify = "classified"
    /\ detection # <<>>
    /\ redetection' \in detections(projects, detection[1].cleanedText)
    /\ pcClassify' = "classifiedAgain"
    /\ UNCHANGED <<noteText, detection>>

InitClassify == AiIdle /\ ClInit /\ CcIdle /\ TmIdle
NextClassify ==
    \/ Classify /\ UNCHANGED <<aiVars, dbVars, ccVars, tmVars>>
    \/ ClassifyAgain /\ UNCHANGED <<aiVars, dbVars, ccVars, tmVars>>
SpecClassify == InitClassify /\ [][NextClassify]_vars

(***************************************************************************)
(* Matching one new recording against the pending tasks.                   *)
(***************************************************************************)
MaxPending == 2    \* pending tasks handed to the matcher

D_doIt == <<"d","o"," ","i","t">>
D_emailPlan == <<"e","m","a","i","l"," ","B","o","b"," ","t","h","e"," ","p","l","a","n">>
D_call == <<"c","a","l","l">>
D_payBobNow == <<"p","a","y"," ","B","o","b"," ","n","o","w">>
D_emailNewPlan == <<"e","m","a","i","l"," ","B","o","b"," ","t","h","e"," ","n","e","w"," ","p","l","a","n">>
\* descriptions with 2, 0, 4, 1, 3 and 5 words longer than 2 characters
Descriptions == {D_callBob, D_doIt, D_emailPlan, D_call, D_payBobNow, D_emailNewPlan}

X_calledBob == <<"C","a","l","l","e","d"," ","B","o","b">>
X_callBob == <<"c","a","l","l"," ","b","o","b">>
X_doneIt == <<"i","t"," ","i","s"," ","d","o","n","e">>
X_sentPlan == <<"s","e","n","t"," ","t","h","e"," ","p","l","a","n"," ","t","o"," ","b","o","b">>
X_talkedTo == <<"t","a","l","k","e","d"," ","t","o"," ","b","o","b",","," ","b","o","o","k","e","d">>
X_abandoned == <<"a","b","a","n","d","o","n","e","d">>
MatcherTexts == {X_calledBob, X_callBob, X_doneIt, X_sentPlan, X_talkedTo, X_abandoned}

\* the rows of getPendingTasks(): tasks 1..n with any of the descriptions
PendingLists ==
    UNION {[1..n -> Descriptions] : n \in 0..MaxPending}
PendingRows(descriptions) ==
    [i \in 1..Len(descriptions) |-> [id |-> i, task_description |-> descriptions[i]]]

\* the id of the recording being matched
NewRecordingId == 1

TmInit ==
    /\ newText \in MatcherTexts
    /\ pendingTasks \in {PendingRows(d) : d \in PendingLists}
    /\ potentialMatches = <<>>
    /\ taskCompletion = [hasCompletion |-> FALSE]
    /\ pcMatcher = "start"
    /\ extractedFrom = <<>>

FindPotentialTaskCompletions ==
    /\ pcMatcher = "start"
    /\ potentialMatches' \in
            findPotentialTaskCompletions(pendingTasks, newText, NewRecordingId)
    /\ pcMatcher' = "matched"
    /\ UNCHANGED <<newText, pendingTasks, taskCompletion, extractedFrom>>

DetectTaskCompletion ==
    /\ pcMatcher = "matched"
    /\ taskCompletion' = detectTaskCompletion(newText, NewRecordingId)
    /\ pcMatcher' = "detected"
    /\ UNCHANGED <<newText, pendingTasks, potentialMatches, extractedFrom>>

InitMatcher == AiIdle /\ DbInit /\ CcIdle /\ ClIdle /\ TmInit
NextMatcher ==
    \/ FindPotentialTaskCompletions /\ UNCHANGED <<aiVars, dbVars, ccVars, clVars>>
    \/ DetectTaskCompletion /\ UNCHANGED <<aiVars, dbVars, ccVars, clVars>>
SpecMatcher == InitMatcher /\ [][NextMatcher]_vars

(***************************************************************************)
(* Properties of the relevance engine (checked under SpecAi).              *)
(***************************************************************************)
\* the result came from the most-recent fallback: its elements carry no score
FromFallback(sel) == sel # <<>> /\ "relevanceScore" \notin DOMAIN sel[1]

\* C1: the context built by trimContext from the output of
\* filterRelevantRecordings is never longer than MAX_CONTEXT_LENGTH characters.
C1_ContextWithinBudget == ContextLength(context) <= MAX_CONTEXT_LENGTH

\* the budget is filled to the last character and a selected note is left out
C1_Witness ==
    /\ pcAi = "trimmed"
    /\ ContextLength(context) = MAX_CONTEXT_LENGTH
    /\ usedRecordings < Len(relevantRecordings)

\* C2 as claimed: for a nonempty list of notes at least one note is rendered
\* into the context.
C2_UsedAtLeastOne == (pcAi = "trimmed" /\ notes # <<>>) => usedRecordings >= 1

\* C2 amended: for a nonempty list of notes the selection is never empty, and
\* at least one note is rendered exactly when the rendered line of the
\* top-ranked selected note alone fits the budget.
C2_UsedAtLeastOneIfFirstFits ==
    (pcAi \in {"filtered", "trimmed"} /\ notes # <<>>) =>
        /\ relevantRecordings # <<>>
        /\ pcAi = "trimmed" =>
            (usedRecordings >= 1 <=>
                RenderedLength(relevantRecordings[1]) <= MAX_CONTEXT_LENGTH)

\* nothing scored, the five most recent notes were taken and all were rendered
C2_Witness ==
    /\ pcAi = "trimmed"
    /\ Len(notes) > 5
    /\ FromFallback(relevantRecordings)
    /\ usedRecordings = 5

\* C3: filterRelevantRecordings never selects more than
\* MAX_RECORDINGS_PER_QUERY notes, on the scored path or the fallback path.
C3_SelectionWithinMax == Len(relevantRecordings) <= MAX_RECORDINGS_PER_QUERY

\* more notes than the maximum have a positive score and exactly the maximum is kept
C3_Witness ==
    /\ pcAi = "filtered"
    /\ Len(relevantRecordings) = MAX_RECORDINGS_PER_QUERY
    /\ ~FromFallback(relevantRecordings)
    /\ Len(withRelevance(question, notes)) > MAX_RECORDINGS_PER_QUERY

\* position of the note with this id in a selection, 0 when it is not selected
Pos(sel, id) ==
    IF \E i \in 1..Len(sel) : sel[i].id = id
    THEN CHOOSE i \in 1..Len(sel) : sel[i].id = id
    ELSE 0

StrictlyAbove(sel, a, b) ==
    Pos(sel, a) > 0 /\ (Pos(sel, b) = 0 \/ Pos(sel, a) < Pos(sel, b))

\* a is ranked at or above b: b is not ranked strictly above a
AtOrAbove(sel, a, b) == ~StrictlyAbove(sel, b, a)

NoteById(id) == notes[CHOOSE i \in 1..Len(notes) : notes[i].id = id]
NoteIds == {notes[i].id : i \in 1..Len(notes)}

\* the term that was added to prevQuestion
AddedTerm == SubSeq(question, Len(prevQuestion[1]) + 2, Len(question))

TextContains(id, t) == includes(toLowerCase(NoteById(id).text), toLowerCase(t))

\* the added term made no further entity value of the note a substring of the question
NoNewEntityMatch(id) ==
    EntityScore(NoteById(id).entities, toLowerCase(question))
        = EntityScore(NoteById(id).entities, toLowerCase(prevQuestion[1]))

Reranked == prevQuestion # <<>> /\ pcAi \in {"filtered", "trimmed"}

\* notes whose text contains the added term, and notes whose text lacks it
WithTerm == {a \in NoteIds : TextContains(a, AddedTerm)}
WithoutTerm == NoteIds \ WithTerm

\* C4 as claimed: when a term t is added to the question, a note A whose text
\* contains t and that was ranked at or above a note B whose text lacks t is
\* still ranked at or above B, whatever entities A and B carry.
C4_RankMonotone ==
    Reranked =>
        \A b \in WithoutTerm : \A a \in WithTerm :
            AtOrAbove(prevRelevant, a, b) => AtOrAbove(relevantRecordings, a, b)

\* C4 amended: the same, provided no entity value of B is a substring of the
\* extended question without being a substring of the original question.
C4_RankMonotoneNoNewEntity ==
    Reranked =>
        \A b \in {x \in WithoutTerm : NoNewEntityMatch(x)} : \A a \in WithTerm :
            AtOrAbove(prevRelevant, a, b) => AtOrAbove(relevantRecordings, a, b)

\* A and B were both selected with A above B, B carries entities, a term of A's
\* text was added, and both are selected again with A above B
C4_Witness ==
    /\ Reranked
    /\ Len(AddedTerm) > 2
    /\ \E a, b \in NoteIds :
        /\ a # b
        /\ TextContains(a, AddedTerm)
        /\ ~TextContains(b, AddedTerm)
        /\ NoNewEntityMatch(b)
        /\ \E i \in 1..Len(NoteById(b).entities) : NoteById(b).entities[i].items # <<>>
        /\ Pos(prevRelevant, a) > 0 /\ Pos(prevRelevant, b) > 0
        /\ Pos(prevRelevant, a) < Pos(prevRelevant, b)
        /\ Pos(relevantRecordings, a) > 0 /\ Pos(relevantRecordings, b) > 0
        /\ Pos(relevantRecordings, a) < Pos(relevantRecordings, b)

(***************************************************************************)
(* Concurrent completions.  Each call of completeTask is a transaction on  *)
(* its own pooled connection: BEGIN, UPDATE, COMMIT are separate awaits,   *)
(* so calls interleave between them.  The UPDATE takes the row lock of the *)
(* task it matches and holds it until COMMIT; an UPDATE that meets a       *)
(* locked row waits, then tests its WHERE clause again on the committed    *)
(* row (READ COMMITTED).  respondToTaskSuggestion(id, 'confirmed') updates *)
(* the suggestion in its own transaction and calls completeTask inside it. *)
(* Notes and tasks are not deleted while attempts run.                     *)
(***************************************************************************)
MaxAttempts == 3    \* completion attempts ever started

Attempt(kind, suggestionId, taskId, by, pc) ==
    [kind |-> kind, suggestion |-> suggestionId, task |-> taskId, by |-> by,
     pc |-> pc, now |-> clock, matched |-> FALSE, result |-> "running",
     startedAt |-> clock, returnedAt |-> NULL]

Locked(table, id) == \E l \in rowLock : l.table = table /\ l.id = id
Lock(table, id, a) == [table |-> table, id |-> id, holder |-> a]

\* POST /api/tasks/:id/complete calls completeTask: BEGIN
BeginCompleteTask(taskId, completedByRecordingId) ==
    /\ Len(attempts) < MaxAttempts
    /\ attempts' = Append(attempts,
            Attempt("completeTask", NULL, taskId, completedByRecordingId, "update"))
    /\ clock' = clock + 1
    /\ UNCHANGED <<projects, recordings, tasks, suggestions, nextId, ret, rowLock>>

\* respondToTaskSuggestion(suggestionId, 'confirmed'): BEGIN
BeginRespond(suggestionId) ==
    /\ Len(attempts) < MaxAttempts
    /\ attempts' = Append(attempts,
            Attempt("respondToTaskSuggestion", suggestionId, NULL, NULL, "respond"))
    /\ clock' = clock + 1
    /\ UNCHANGED <<projects, recordings, tasks, suggestions, nextId, ret, rowLock>>

\* respondToTaskSuggestion, lines 600-615: UPDATE task_completion_suggestions
\* ... RETURNING *, then the call of completeTask and its BEGIN
UpdateSuggestion(a) ==
    /\ attempts[a].pc = "respond"
    /\ ~Locked("suggestions", attempts[a].suggestion)
    /\ rowLock' = rowLock \cup {Lock("suggestions", attempts[a].suggestion, a)}
    /\ attempts' = [attempts EXCEPT
            ![a].task = suggestions[attempts[a].suggestion].task_id,
            ![a].by = suggestions[attempts[a].suggestion].recording_id,
            ![a].now = clock,
            ![a].pc = "update"]
    /\ clock' = clock + 1
    /\ UNCHANGED <<projects, recordings, tasks, suggestions, nextId, ret>>

\* completeTask, lines 917-925: UPDATE tasks ... WHERE id = $1 AND status = 'pending'
UpdateTask(a) ==
    /\ attempts[a].pc = "update"
    /\ ~Locked("tasks", attempts[a].task)
    /\ attempts' = [attempts EXCEPT
            ![a].matched = matchesPending(tasks, attempts[a].task),
            ![a].pc = "commit"]
    /\ rowLock' = IF matchesPending(tasks, attempts[a].task)
                  THEN rowLock \cup {Lock("tasks", attempts[a].task, a)}
                  ELSE rowLock
    /\ UNCHANGED <<projects, recordings, tasks, suggestions, nextId, clock, ret>>

\* completeTask, lines 927-935: COMMIT, then return result.rows[0] or null
CommitTask(a) ==
    /\ attempts[a].pc = "commit"
    /\ tasks' = IF attempts[a].matched
                THEN completeTaskUpdate(tasks, attempts[a].task, attempts[a].by,
                                        attempts[a].now)
                ELSE tasks
    /\ rowLock' = rowLock \ {Lock("tasks", attempts[a].task, a)}
    /\ attempts' = [attempts EXCEPT
            ![a].result = IF attempts[a].matched THEN "task" ELSE "null",
            ![a].returnedAt = clock,
            ![a].pc = IF attempts[a].kind = "completeTask" THEN "done"
                      ELSE "respondCommit"]
    /\ clock' = clock + 1
    /\ UNCHANGED <<projects, recordings, suggestions, nextId, ret>>

\* respondToTaskSuggestion, lines 617-618: COMMIT
CommitRespond(a) ==
    /\ attempts[a].pc = "respondCommit"
    /\ suggestions' = respondUpdate(suggestions, attempts[a].suggestion, "confirmed")
    /\ rowLock' = rowLock \ {Lock("suggestions", attempts[a].suggestion, a)}
    /\ attempts' = [attempts EXCEPT ![a].pc = "done"]
    /\ UNCHANGED <<projects, recordings, tasks, nextId, clock, ret>>

NextConc ==
    \/ SaveRecording(T_hi, <<D_callBob>>, NULL) /\ UNCHANGED <<aiVars, ccVars, clVars, tmVars>>
    \/ \E taskId \in DOMAIN tasks, recordingId \in DOMAIN recordings :
            CreateTaskCompletionSuggestion(taskId, recordingId)
                /\ UNCHANGED <<aiVars, ccVars, clVars, tmVars>>
    \/ \E taskId \in DOMAIN tasks, by \in {NULL} \cup DOMAIN recordings :
            BeginCompleteTask(taskId, by) /\ UNCHANGED <<aiVars, clVars, tmVars>>
    \/ \E suggestionId \in DOMAIN suggestions :
            BeginRespond(suggestionId) /\ UNCHANGED <<aiVars, clVars, tmVars>>
    \/ \E a \in DOMAIN attempts : UpdateSuggestion(a) /\ UNCHANGED <<aiVars, clVars, tmVars>>
    \/ \E a \in DOMAIN attempts : UpdateTask(a) /\ UNCHANGED <<aiVars, clVars, tmVars>>
    \/ \E a \in DOMAIN attempts : CommitTask(a) /\ UNCHANGED <<aiVars, clVars, tmVars>>
    \/ \E a \in DOMAIN attempts : CommitRespond(a) /\ UNCHANGED <<aiVars, clVars, tmVars>>

SpecConc == Init /\ [][NextConc]_vars

(***************************************************************************)
(* Properties of tasks and suggestions (checked under Spec).               *)
(***************************************************************************)
Completed(t) == tasks[t].status = "completed"

\* C5: a task that is completed stays completed for as long as it exists, and
\* no later operation rewrites its completed_at or completed_by_recording_id.
C5_CompletionIsFinal ==
    [][\A t \in DOMAIN tasks :
         (Completed(t) /\ t \in DOMAIN tasks') =>
            /\ tasks'[t].status = "completed"
            /\ tasks'[t].completed_at = tasks[t].completed_at
            /\ tasks'[t].completed_by_recording_id =
                    tasks[t].completed_by_recording_id]_vars

\* a completion was attempted on a task that is already completed; the update
\* matched no row and the task kept the note that completed it
C5_Witness ==
    /\ ret.op = "completeTask"
    /\ ret.rows = 0
    /\ ret.arg \in DOMAIN tasks
    /\ Completed(ret.arg)
    /\ ret.by # tasks[ret.arg].completed_by_recording_id

\* C7: the note a task was completed by exists and was created after the
\* note the task came from.
C7_CompletedByExistsAndPostdates ==
    \A t \in DOMAIN tasks :
        tasks[t].completed_by_recording_id # NULL =>
            /\ tasks[t].completed_by_recording_id \in DOMAIN recordings
            /\ tasks[t].recording_id \in DOMAIN recordings
            /\ recordings[tasks[t].completed_by_recording_id].timestamp >
                    recordings[tasks[t].recording_id].timestamp

\* C8: a response to a suggestion that is already rejected does not complete
\* the suggestion's task with the suggestion's note.
C8_RejectedIsFinal ==
    [][\A g \in DOMAIN suggestions :
         (/\ suggestions[g].status = "rejected"
          /\ ret'.op = "respondToTaskSuggestion"
          /\ ret'.arg = g
          /\ suggestions[g].task_id \in DOMAIN tasks) =>
            ~(/\ tasks[suggestions[g].task_id].status = "pending"
              /\ tasks'[suggestions[g].task_id].status = "completed"
              /\ tasks'[suggestions[g].task_id].completed_by_recording_id =
                    suggestions[g].recording_id)]_vars

(***************************************************************************)
(* Properties of projects (checked under SpecProjects).                    *)
(***************************************************************************)
Inactive(p) == p \in DOMAIN projects /\ ~projects[p].is_active

\* C9: every note filed under a project is filed under an active project.
C9_NotesUnderActiveProjects ==
    \A r \in DOMAIN recordings :
        recordings[r].project_id # NULL =>
            /\ recordings[r].project_id \in DOMAIN projects
            /\ projects[recordings[r].project_id].is_active

\* the text starts with "<name of p>: "
StartsWithNameOf(p, text) ==
    /\ Len(text) >= Len(projects[p].name) + 2
    /\ SubSeq(text, 1, Len(projects[p].name) + 2) = projects[p].name \o <<":", " ">>

\* the classifier reads the name of p, in any case, before the first colon
NamesProject(p, text) ==
    /\ projectMatch(text) # <<>>
    /\ toLowerCase(trim(projectMatch(text)[1].name)) = toLowerCase(projects[p].name)

\* the last operation saved a note, and this is the note
Saved == ret.op = "saveRecording"
savedNote == recordings[ret.id]

\* C10 as stated: a note saved without a project id, with the name of a
\* deleted project in front, is not filed under that project and keeps its text.
C10_DeletedNameNeverMatches ==
    (Saved /\ ret.projectId = NULL) =>
        \A p \in DOMAIN projects :
            (Inactive(p) /\ StartsWithNameOf(p, ret.arg)) =>
                /\ savedNote.project_id # p
                /\ savedNote.text = ret.arg

\* C10: a note saved without a project id, with the name of a deleted project
\* in front, is not filed under that project; it loses the prefix only when an
\* active project has the same name, ignoring case.
C10_DeletedNameMatchesOnlyActiveNamesake ==
    (Saved /\ ret.projectId = NULL) =>
        \A p \in DOMAIN projects :
            (Inactive(p) /\ NamesProject(p, ret.arg)) =>
                /\ savedNote.project_id # p
                /\ savedNote.text # ret.arg =>
                        \E q \in DOMAIN projects :
                            /\ projects[q].is_active
                            /\ savedNote.project_id = q
                            /\ toLowerCase(projects[q].name) =
                                    toLowerCase(projects[p].name)

\* a project was deleted, then a note with its name in front was saved: the
\* note kept its text and went to no project
C10_Witness ==
    /\ Saved
    /\ ret.projectId = NULL
    /\ \E p \in DOMAIN projects :
            /\ Inactive(p)
            /\ StartsWithNameOf(p, ret.arg)
            /\ savedNote.text = ret.arg
            /\ savedNote.project_id = NULL

(***************************************************************************)
(* Properties of concurrent completions (checked under SpecConc).          *)
(***************************************************************************)
AttemptsOn(t) == {a \in DOMAIN attempts : attempts[a].task = t}
Returned(a) == attempts[a].result # "running"
Winners(t) == {a \in AttemptsOn(t) : attempts[a].result = "task"}

\* C6: of the completion attempts on one task at most one returns the task,
\* and once they have all returned exactly one has: the task carries the
\* winner's note and time, every other attempt returned null.
C6_ExactlyOneCompletes ==
    \A t \in DOMAIN tasks :
        /\ Cardinality(Winners(t)) <= 1
        /\ \A w \in Winners(t) :
                /\ tasks[t].status = "completed"
                /\ tasks[t].completed_by_recording_id = attempts[w].by
                /\ tasks[t].completed_at = attempts[w].now
        /\ (AttemptsOn(t) # {} /\ \A a \in AttemptsOn(t) : Returned(a)) =>
                /\ Cardinality(Winners(t)) = 1
                /\ \A a \in AttemptsOn(t) \ Winners(t) : attempts[a].result = "null"

\* two attempts on one task, with different notes, ran at the same time: the
\* loser had started before the winner returned, and returned null
C6_Witness ==
    \E t \in DOMAIN tasks : \E w \in Winners(t) : \E a \in AttemptsOn(t) :
        /\ attempts[a].result = "null"
        /\ attempts[a].by # attempts[w].by
        /\ attempts[a].startedAt < attempts[w].returnedAt
        /\ attempts[w].startedAt < attempts[a].returnedAt
        /\ tasks[t].completed_by_recording_id = attempts[w].by

(***************************************************************************)
(* Properties of the classifier (checked under SpecClassify).              *)
(***************************************************************************)
Classified == pcClassify \in {"classified", "classifiedAgain"}
ActiveProjects == {p \in DOMAIN projects : projects[p].is_active}

\* the text is name \o sep \o rest for the name of project p in any case
HasForm(text, p, sep, rest) ==
    /\ Len(text) = Len(projects[p].name) + Len(sep) + Len(rest)
    /\ toLowerCase(SubSeq(text, 1, Len(projects[p].name))) =
            toLowerCase(projects[p].name)
    /\ SubSeq(text, Len(projects[p].name) + 1, Len(projects[p].name) + Len(sep)) = sep
    /\ SubSeq(text, Len(projects[p].name) + Len(sep) + 1, Len(text)) = rest

\* the text is "Name: rest" with no colon in Name
ColonForm(text, p, rest) ==
    /\ HasForm(text, p, <<":", " ">>, rest)
    /\ FirstColon(text) = Len(projects[p].name) + 1

\* C11: a text "Name: rest", Name an active project's name in any case, is
\* classified to that project with the text rest (white space around it
\* removed); the segment before the first colon is the one compared.
C11_ColonFormReturnsRest ==
    Classified =>
        \A p \in ActiveProjects : \A rest \in Rests :
            ColonForm(noteText, p, rest) =>
                detection = <<[project |-> p, cleanedText |-> trim(rest)]>>

(***************************************************************************)
(* Properties of saving an unclassified note (checked under SpecProjects). *)
(***************************************************************************)
\* the last operation saved a note without a project id and the classifier
\* found no project in its text
SavedUnmatched ==
    /\ Saved
    /\ ret.projectId = NULL
    /\ detectProjectFromText(projects, ret.arg) = {}

IsActiveGeneral(p) ==
    p \in DOMAIN projects /\ projects[p].is_active /\ projects[p].name = N_General

\* C12 as stated: a note the classifier finds no project in is stored with
\* its text as given and is filed under the project General.
C12_UnmatchedGoesToGeneral ==
    SavedUnmatched =>
        /\ savedNote.text = ret.arg
        /\ IsActiveGeneral(savedNote.project_id)

\* C12: a note the classifier finds no project in is stored with its text as
\* given; it is filed under an active project named General when there is
\* one, and under no project otherwise.
C12_UnmatchedGoesToGeneralIfAny ==
    SavedUnmatched =>
        /\ savedNote.text = ret.arg
        /\ \/ IsActiveGeneral(savedNote.project_id)
           \/ /\ savedNote.project_id = NULL
              /\ ~\E p \in DOMAIN projects : IsActiveGeneral(p)

\* a note with an unknown name in front was saved while General was active:
\* it kept its text and went to General
C12_Witness ==
    /\ SavedUnmatched
    /\ projectMatch(ret.arg) # <<>>
    /\ savedNote.text = ret.arg
    /\ IsActiveGeneral(savedNote.project_id)

(***************************************************************************)
(* Properties of the other leading forms (checked under SpecClassify).     *)
(***************************************************************************)
\* C13: the texts "Name, rest" and "Name. rest", Name an active project's
\* name, are classified to that project with the text rest.
C13_CommaAndPeriodForms ==
    Classified =>
        \A p \in ActiveProjects : \A rest \in Rests :
            \A sep \in {<<",", " ">>, <<".", " ">>} :
                HasForm(noteText, p, sep, rest) =>
                    detection = <<[project |-> p, cleanedText |-> trim(rest)]>>

HasSeparator(text) == \E i \in 1..Len(text) : text[i] \in {":", ",", "."}

\* C14: a text without separator character that starts with an active
\* project's name and a space is classified to that project with the text
\* after the space.
C14_NameThenSpaceForm ==
    Classified =>
        \A p \in ActiveProjects : \A rest \in Rests :
            (HasForm(noteText, p, <<" ">>, rest) /\ ~HasSeparator(noteText)) =>
                detection = <<[project |-> p, cleanedText |-> trim(rest)]>>

(***************************************************************************)
(* Idempotence of the classifier (checked under SpecClassify).             *)
(***************************************************************************)
\* the text begins with the name of an active project, in any case, followed
\* by a separator character or white space
BeginsWithActiveName(text) ==
    \E p \in ActiveProjects :
        /\ Len(text) > Len(projects[p].name)
        /\ toLowerCase(SubSeq(text, 1, Len(projects[p].name))) =
                toLowerCase(projects[p].name)
        /\ \/ text[Len(projects[p].name) + 1] \in {":", ",", "."}
           \/ IsSpace(text[Len(projects[p].name) + 1])

\* an active project's name occurs in the text, in any case
NameOccurs(text) ==
    \E p \in ActiveProjects : includes(toLowerCase(text), toLowerCase(projects[p].name))

\* C15: a cleaned text that does not begin with an active project's name and
\* a separator is classified to null when classified again; and no text is
\* classified on a name that only occurs after its beginning.
C15_ClassifierIsIdempotent ==
    /\ (pcClassify = "classifiedAgain"
            /\ ~BeginsWithActiveName(detection[1].cleanedText)) =>
                redetection = <<>>
    /\ (Classified /\ ~BeginsWithActiveName(trimStart(noteText))) =>
                detection = <<>>

\* a text was classified and its cleaned text, which holds the project's name
\* and a colon further on, was classified again to null
C15_Witness ==
    /\ pcClassify = "classifiedAgain"
    /\ detection[1].cleanedText = R_nameLater
    /\ NameOccurs(detection[1].cleanedText)
    /\ redetection = <<>>

(***************************************************************************)
(* Properties of the task matcher (checked under SpecMatcher).             *)
(***************************************************************************)
Matched == pcMatcher \in {"matched", "detected"}

\* the lowercased text contains one of the completion keywords
ContainsKeyword(text) ==
    \E i \in DOMAIN completionKeywords :
        includes(toLowerCase(text), completionKeywords[i])

ContainedKeywords(text) ==
    {completionKeywords[i] : i \in {j \in DOMAIN completionKeywords :
                                includes(toLowerCase(text), completionKeywords[j])}}

\* C16: there are 14 keywords; a text containing none of them gets no
\* candidate whatever the pending tasks are; detectTaskCompletion reports
\* hasCompletion exactly for the texts containing a keyword, and then lists
\* exactly the keywords contained.
C16_KeywordGate ==
    /\ Len(completionKeywords) = 14
    /\ (Matched /\ ~ContainsKeyword(newText)) => potentialMatches = <<>>
    /\ pcMatcher = "detected" =>
            /\ taskCompletion.hasCompletion <=> ContainsKeyword(newText)
            /\ taskCompletion.hasCompletion =>
                    {taskCompletion.keywords[i] : i \in DOMAIN taskCompletion.keywords}
                        = ContainedKeywords(newText)

\* a text without keyword was matched against a pending task whose words it
\* contains: no candidate, no completion reported
C16_Witness ==
    /\ pcMatcher = "detected"
    /\ ~ContainsKeyword(newText)
    /\ \E i \in DOMAIN pendingTasks :
            /\ taskWords(pendingTasks[i].task_description) # <<>>
            /\ significantOverlap(pendingTasks[i].task_description,
                                  toLowerCase(newText))
    /\ potentialMatches = <<>>
    /\ ~taskCompletion.hasCompletion

\* C17: every candidate has a confidence between 0 and 1 and at least one
\* overlapping word.
C17_ConfidenceInUnitInterval ==
    Matched =>
        \A i \in DOMAIN potentialMatches :
            /\ ~IsNaN(potentialMatches[i].confidence)
            /\ 0 <= potentialMatches[i].confidence.num
            /\ potentialMatches[i].confidence.num <= potentialMatches[i].confidence.den
            /\ potentialMatches[i].matchingWords # <<>>

(***************************************************************************)
(* Posting notes and looking for completed tasks, over the database.       *)
(***************************************************************************)
\* getPendingTasks(), lines 893-908: the pending tasks joined with their
\* recordings, newest recording first; the order among the tasks of one
\* recording is left to the database
getPendingTasks(tbl, recs) ==
    LET ids == {t \in DOMAIN tbl : /\ tbl[t].status = "pending"
                                   /\ tbl[t].recording_id \in DOMAIN recs}
        recordedAt(t) == recs[tbl[t].recording_id].timestamp
    IN  {[i \in 1..Cardinality(ids) |->
                [id |-> order[i], task_description |-> tbl[order[i]].task_description]] :
            order \in {o \in [1..Cardinality(ids) -> ids] :
                        /\ \A i, j \in 1..Cardinality(ids) : o[i] = o[j] => i = j
                        /\ \A i, j \in 1..Cardinality(ids) :
                                i < j => recordedAt(o[i]) >= recordedAt(o[j])}}

\* the texts posted: one without and one with a completion keyword
PostedTexts == {T_hi, X_calledBob}

\* a matcher that would complete the tasks the note seems to report
FindCompletions_completing(text, recordingId) ==
    /\ \E pending \in getPendingTasks(tasks, recordings) :
       \E found \in findPotentialTaskCompletions(pending, text, recordingId) :
            /\ pendingTasks' = pending
            /\ potentialMatches' = found
            /\ tasks' = [t \in DOMAIN tasks |->
                            IF \E i \in DOMAIN found : found[i].taskId = t
                            THEN [tasks[t] EXCEPT !.status = "completed",
                                                  !.completed_at = clock,
                                                  !.completed_by_recording_id = recordingId]
                            ELSE tasks[t]]
    /\ newText' = text
    /\ ret' = [op |-> "findPotentialTaskCompletions", arg |-> recordingId]
    /\ UNCHANGED <<projects, recordings, suggestions, nextId, clock>>
    /\ UNCHANGED <<taskCompletion, pcMatcher, extractedFrom>>

\* POST /api/recordings, server.js lines 47-91: extractEntities(transcription)
\* returning any task list, saveRecording(transcription, entities), then
\* detectTaskCompletion(transcription, newRecording.id)
PostRecording(text, taskList) ==
    /\ extractedFrom' = text
    /\ SaveRecording(text, taskList, NULL)
    /\ newText' = text
    /\ taskCompletion' = detectTaskCompletion(text, nextId.recordings)
    /\ UNCHANGED <<pendingTasks, potentialMatches, pcMatcher>>

\* findPotentialTaskCompletions(recordingText, recordingId), lines 488-543,
\* reading the pending tasks from the database
FindCompletions(text, recordingId) ==
    /\ \E pending \in getPendingTasks(tasks, recordings) :
            /\ pendingTasks' = pending
            /\ potentialMatches' \in findPotentialTaskCompletions(pending, text, recordingId)
    /\ newText' = text
    /\ ret' = [op |-> "findPotentialTaskCompletions", arg |-> recordingId]
    /\ UNCHANGED <<projects, recordings, tasks, suggestions, nextId, clock>>
    /\ UNCHANGED <<taskCompletion, pcMatcher, extractedFrom>>

NextPipeline ==
    \/ \E text \in PostedTexts, taskList \in TaskLists :
            PostRecording(text, taskList) /\ UNCHANGED <<aiVars, ccVars, clVars>>
    \/ \E text \in PostedTexts, recordingId \in DOMAIN recordings :
            FindCompletions(text, recordingId) /\ UNCHANGED <<aiVars, ccVars, clVars>>
    \/ \E recordingId \in RecordingIds :
            DeleteRecording(recordingId) /\ UNCHANGED <<aiVars, ccVars, clVars, tmVars>>
    \/ \E taskId \in TaskIds, by \in {NULL} \cup DOMAIN recordings :
            CompleteTask(taskId, by) /\ UNCHANGED <<aiVars, ccVars, clVars, tmVars>>
    \/ \E taskId \in TaskIds, recordingId \in RecordingIds :
            CreateTaskCompletionSuggestion(taskId, recordingId)
                /\ UNCHANGED <<aiVars, ccVars, clVars, tmVars>>
    \/ \E suggestionId \in SuggestionIds, response \in Responses :
            RespondToTaskSuggestion(suggestionId, response)
                /\ UNCHANGED <<aiVars, ccVars, clVars, tmVars>>

SpecPipeline == Init /\ [][NextPipeline]_vars

\* C18: saving a note and looking for completions never changes the status,
\* completed_at or completed_by_recording_id of an existing task; these
\* change only in a completeTask call on that task or in the confirmation of
\* a suggestion about it.
C18_DetectionLeavesTasksAlone ==
    [][\A t \in DOMAIN tasks :
            (t \in DOMAIN tasks'
                /\ <<tasks'[t].status, tasks'[t].completed_at,
                     tasks'[t].completed_by_recording_id>>
                   # <<tasks[t].status, tasks[t].completed_at,
                       tasks[t].completed_by_recording_id>>)
            => \/ ret'.op = "completeTask" /\ ret'.arg = t
               \/ /\ ret'.op = "respondToTaskSuggestion"
                  /\ ret'.response = "confirmed"
                  /\ ret'.found
                  /\ suggestions[ret'.arg].task_id = t]_vars

\* a note reporting a pending task done has been posted and matched against
\* the pending tasks; the task it matches is still pending
C18_Witness ==
    /\ ret.op = "findPotentialTaskCompletions"
    /\ taskCompletion.hasCompletion
    /\ newText = X_calledBob
    /\ potentialMatches # <<>>
    /\ \A i \in DOMAIN potentialMatches :
            /\ potentialMatches[i].taskId \in DOMAIN tasks
            /\ tasks[potentialMatches[i].taskId].status = "pending"
            /\ tasks[potentialMatches[i].taskId].completed_at = NULL
    /\ \E t \in DOMAIN tasks : tasks[t].status = "completed"

(***************************************************************************)
(* The same question asked twice over the same array.                      *)
(***************************************************************************)
\* the time that passes between the two calls, in milliseconds
Delays == {0, 1, MsPerDay, 4 * MsPerDay}

\* generateResponse(question, recordings) is called again with the same
\* question and the same array, delay milliseconds later
AskAgain(delay) ==
    /\ pcAi = "trimmed"
    /\ prevQuestion = <<>>
    /\ prevQuestion' = <<question>>
    /\ prevRelevant' = relevantRecordings
    /\ prevContext' = context
    /\ prevNow' = dateNow
    /\ dateNow' = dateNow + delay
    /\ relevantRecordings' = <<>>
    /\ context' = <<>>
    /\ usedRecordings' = 0
    /\ pcAi' = "start"
    /\ UNCHANGED <<question, notes>>

NextRepeat ==
    \/ FilterRelevantRecordings /\ UNCHANGED <<dbVars, ccVars, clVars, tmVars>>
    \/ TrimContext /\ UNCHANGED <<dbVars, ccVars, clVars, tmVars>>
    \/ \E delay \in Delays : AskAgain(delay) /\ UNCHANGED <<dbVars, ccVars, clVars, tmVars>>
SpecRepeat == InitAi /\ [][NextRepeat]_vars

\* the second call has returned
AnsweredAgain == pcAi = "trimmed" /\ prevQuestion = <<question>>

\* the ids of the selected recordings, in order
Selection(recs) == [i \in 1..Len(recs) |-> recs[i].id]

SameAnswer == /\ Selection(relevantRecordings) = Selection(prevRelevant)
              /\ context = prevContext

\* the recency bracket of a recording at a time: under a day, under a week, older
Bracket(r, time) ==
    IF time - r.timestamp < 1 * MsPerDay THEN "day"
    ELSE IF time - r.timestamp < 7 * MsPerDay THEN "week" ELSE "older"

SameBrackets ==
    \A i \in 1..Len(notes) : Bracket(notes[i], dateNow) = Bracket(notes[i], prevNow)

\* C19 as stated: the second call returns the same ordered selection and the
\* same context as the first, whenever it is made.
C19_SameAnswerWheneverAsked == AnsweredAgain => SameAnswer

\* C19: the second call returns the same ordered selection and the same
\* context as the first when every recording is in the same recency bracket
\* at both calls, as when the calls are made at the same time.
C19_SameAnswerAtTheSameAge == (AnsweredAgain /\ SameBrackets) => SameAnswer

\* the second call was made at the same time over an array that the first
\* call had reordered, and returned the same selection
C19_Witness ==
    /\ AnsweredAgain
    /\ dateNow = prevNow
    /\ Len(notes) >= 2
    /\ Selection(notes) # [i \in 1..Len(notes) |-> i]
    /\ SameAnswer
    /\ context # <<>>

\* C20: after filterRelevantRecordings returns, the caller's array holds the
\* same recordings in the same order as before the call (the ids 1, 2, ...
\* in which getAllRecordings delivered them).
C20_CallerArrayUntouched ==
    pcAi = "filtered" => Selection(notes) = [i \in 1..Len(notes) |-> i]

(***************************************************************************)
(* Properties of what generateResponse discloses (checked under SpecAi).   *)
(***************************************************************************)
\* C21: the count of notes disclosed after answering (the figure of the
\* contextInfo line, and relevantRecordings of estimateTokenUsage) is the
\* number of notes rendered into the context.
C21_DisclosedCountIsUsedCount ==
    pcAi = "trimmed" =>
        /\ contextInfo(relevantRecordings, notes) # <<>>
                => contextInfo(relevantRecordings, notes)[1] = usedRecordings
        /\ estimateTokenUsage(question, notes).relevantRecordings = usedRecordings

(***************************************************************************)
(* The threshold of the task matcher (checked under SpecMatcher).          *)
(***************************************************************************)
\* ceil(0.5 x n)
CeilHalf(n) == (n + 1) \div 2

\* the number of descriptive words of a description / of those found in a text
DescriptiveWords(description) == Len(taskWords(description))
WordsFound(description, text) == Len(matchingWords(description, toLowerCase(text)))

CandidateIds == {potentialMatches[i].taskId : i \in DOMAIN potentialMatches}

\* C22: the candidates are exactly the pending tasks of which at least
\* min(2, ceil(0.5 x descriptive words)) descriptive words are found in the
\* text, when the text contains a completion keyword, and none otherwise.
C22_ThresholdWithCeiling ==
    Matched =>
        CandidateIds =
            {pendingTasks[i].id : i \in
                {j \in DOMAIN pendingTasks :
                    /\ ContainsKeyword(newText)
                    /\ WordsFound(pendingTasks[j].task_description, newText) >=
                        Min(2, CeilHalf(DescriptiveWords(pendingTasks[j].task_description)))}}

\* a text with a keyword met a task of 3 descriptive words of which it has
\* one, left out, and a task that is a candidate
C22_Witness ==
    /\ Matched
    /\ ContainsKeyword(newText)
    /\ potentialMatches # <<>>
    /\ \E i \in DOMAIN pendingTasks :
            /\ DescriptiveWords(pendingTasks[i].task_description) = 3
            /\ WordsFound(pendingTasks[i].task_description, newText) = 1
            /\ pendingTasks[i].id \notin CandidateIds

(***************************************************************************)
(* Properties of the relevance score (checked under SpecAi).               *)
(***************************************************************************)
\* the age of a recording at the time of the call
RecordingAge(r) == dateNow - r.timestamp

\* what is left of a recording's score without its keyword and entity matches
RecencyPart(r) ==
    relevanceScore(question, r)
        - KeywordScore(questionWords(question), toLowerCase(r.text))
        - EntityScore(r.entities, toLowerCase(question))

\* C23: the recency component of the score is 0 for a note at least 7 days
\* old, 2 for a note less than 7 days and at least 1 day old, and 3 for a
\* note less than 1 day old.
C23_RecencyValues ==
    pcAi = "filtered" =>
        \A i \in 1..Len(notes) :
            RecencyPart(notes[i]) =
                IF RecordingAge(notes[i]) >= 7 * MsPerDay THEN 0
                ELSE IF RecordingAge(notes[i]) >= 1 * MsPerDay THEN 2
                ELSE 3

\* the score filterRelevantRecordings gave a selected recording
ScoreOf(r) == relevanceScore(question, r)

\* the selection runs by score descending, equal scores newer first
RankedNewerFirst(sel) ==
    \A i, j \in 1..Len(sel) :
        i < j => \/ ScoreOf(sel[i]) > ScoreOf(sel[j])
                 \/ /\ ScoreOf(sel[i]) = ScoreOf(sel[j])
                    /\ sel[i].timestamp >= sel[j].timestamp

\* the array was handed over newest first, as getAllRecordings delivers it
\* (ORDER BY r.timestamp DESC); the ids tell the order of delivery
DeliveredNewestFirst ==
    \A i, j \in 1..Len(notes) :
        notes[i].id < notes[j].id => notes[i].timestamp >= notes[j].timestamp

NothingScores == \A i \in 1..Len(notes) : ScoreOf(notes[i]) <= 0

\* C25: when no recording has a positive score, filterRelevantRecordings
\* returns min(5, number of recordings) recordings of the array, each once,
\* newest first, and none of the recordings left out is newer than one
\* returned.
C25_FallbackIsMostRecent ==
    (pcAi = "filtered" /\ NothingScores) =>
        /\ Len(relevantRecordings) = Min(5, Len(notes))
        /\ \A i \in 1..Len(relevantRecordings) :
                \E k \in 1..Len(notes) : notes[k] = relevantRecordings[i]
        /\ \A i, j \in 1..Len(relevantRecordings) :
                /\ i < j => relevantRecordings[i].timestamp >= relevantRecordings[j].timestamp
                /\ i # j => relevantRecordings[i].id # relevantRecordings[j].id
        /\ \A k \in 1..Len(notes) :
                (\A i \in 1..Len(relevantRecordings) : relevantRecordings[i].id # notes[k].id)
                    => \A i \in 1..Len(relevantRecordings) :
                            relevantRecordings[i].timestamp >= notes[k].timestamp

\* more than 5 recordings, none with a positive score and not delivered
\* newest first, of which the 5 most recent were returned
C25_Witness ==
    /\ pcAi = "filtered"
    /\ NothingScores
    /\ Len(notes) > 5
    /\ ~DeliveredNewestFirst
    /\ Len(relevantRecordings) = 5
    /\ relevantRecordings[1].timestamp > relevantRecordings[5].timestamp

(***************************************************************************)
(* Posting notes while projects exist.                                     *)
(***************************************************************************)
NextPost ==
    \/ \E name \in ProjectNames :
            CreateProject(name) /\ UNCHANGED <<aiVars, ccVars, clVars, tmVars>>
    \/ \E text \in Texts, taskList \in TaskLists :
            PostRecording(text, taskList) /\ UNCHANGED <<aiVars, ccVars, clVars>>

SpecPost == Init /\ [][NextPost]_vars

\* C26: the text entities are extracted from is the text that is stored,
\* the classifier having taken the project prefix off before the extraction.
C26_ExtractionSeesStoredText ==
    ret.op = "saveRecording" => extractedFrom = recordings[ret.id].text

(***************************************************************************)
(* Properties of the trimmed context (checked under SpecAi).               *)
(***************************************************************************)
\* the complete rendered lines of the first k selected recordings
RenderedPrefix(k) ==
    [i \in 1..k |-> [id |-> relevantRecordings[i].id,
                     len |-> RenderedLength(relevantRecordings[i])]]

\* C27: the context is made of the complete rendered lines of a prefix of
\* the selection, and the prefix ends at the first recording whose line
\* would take the context over the budget; nothing behind it is included.
C27_ContextIsWholePrefix ==
    pcAi = "trimmed" =>
        /\ Len(context) <= Len(relevantRecordings)
        /\ context = RenderedPrefix(Len(context))
        /\ Len(context) < Len(relevantRecordings) =>
                ContextLength(context)
                    + RenderedLength(relevantRecordings[Len(context) + 1])
                    > MAX_CONTEXT_LENGTH

\* the context stopped at a recording that did not fit, after taking at
\* least one, and a recording further down would still have fitted
C27_Witness ==
    /\ pcAi = "trimmed"
    /\ Len(context) >= 1
    /\ Len(context) < Len(relevantRecordings)
    /\ \E j \in (Len(context) + 2)..Len(relevantRecordings) :
            ContextLength(context) + RenderedLength(relevantRecordings[j])
                <= MAX_CONTEXT_LENGTH

(***************************************************************************)
(* Recent recordings and the fallback (checked under SpecAi).              *)
(***************************************************************************)
\* the recording matches a word of the question or has an entity found in it
HasMatch(r) ==
    \/ KeywordScore(questionWords(question), toLowerCase(r.text)) > 0
    \/ EntityScore(r.entities, toLowerCase(question)) > 0

\* the objects returned by the fallback are the caller's own, without a
\* relevanceScore
FallbackTaken ==
    /\ relevantRecordings # <<>>
    /\ "relevanceScore" \notin DOMAIN relevantRecordings[1]

\* C28: a recording less than 7 days old has a positive score and passes
\* the filter on the score, whatever the question; the fallback is taken
\* exactly when every recording is at least 7 days old and none has a match.
C28_RecentAlwaysScores ==
    (pcAi = "filtered" /\ notes # <<>>) =>
        /\ LET kept == withRelevance(question, notes)
               passed == {kept[k].id : k \in 1..Len(kept)}
           IN  \A i \in 1..Len(notes) :
                    RecordingAge(notes[i]) < 7 * MsPerDay =>
                        /\ ScoreOf(notes[i]) > 0
                        /\ notes[i].id \in passed
        /\ FallbackTaken <=>
                \A i \in 1..Len(notes) :
                    /\ RecordingAge(notes[i]) >= 7 * MsPerDay
                    /\ ~HasMatch(notes[i])

\* a recording of the last 7 days that matches nothing in the question was
\* selected, next to older recordings that match nothing
C28_Witness ==
    /\ pcAi = "filtered"
    /\ ~FallbackTaken
    /\ \A i \in 1..Len(notes) : ~HasMatch(notes[i])
    /\ \E i \in 1..Len(notes) : RecordingAge(notes[i]) >= 7 * MsPerDay
    /\ \E k \in 1..Len(relevantRecordings) :
            /\ RecordingAge(relevantRecordings[k]) < 7 * MsPerDay
            /\ RecordingAge(relevantRecordings[k]) >= 1 * MsPerDay

(***************************************************************************)
(* The text the classifier hands back (checked under SpecClassify).        *)
(***************************************************************************)
\* what follows the first colon of the text
AfterSeparator(text) == SubSeq(text, FirstColon(text) + 1, Len(text))

\* C29: when the classifier finds a project, the cleaned text is the text
\* without its leading project name, the separator and the white space
\* after the separator; every character behind that is kept.
C29_RemainderIsKept ==
    (Classified /\ detection # <<>>) =>
        detection[1].cleanedText = trimStart(AfterSeparator(noteText))

(***************************************************************************)
(* Suggestions and their tasks (checked under Spec).                       *)
(***************************************************************************)
\* the task of suggestion g is completed by the recording of the suggestion
CompletedAsSuggested(g) ==
    /\ suggestions[g].task_id \in DOMAIN tasks
    /\ tasks[suggestions[g].task_id].status = "completed"
    /\ tasks[suggestions[g].task_id].completed_by_recording_id
            = suggestions[g].recording_id

\* C30: after a call of respondToTaskSuggestion a suggestion is confirmed
\* if and only if its task is completed by the suggestion's recording.
C30_SuggestionAgreesWithTask ==
    ret.op = "respondToTaskSuggestion" =>
        \A g \in DOMAIN suggestions :
            suggestions[g].status = "confirmed" <=> CompletedAsSuggested(g)

====
